---- MODULE Spec2Model ----
(***************************************************************************)
(* Model of checkmk/splunk_health_check.py: a Checkmk local check that     *)
(* tails the Splunk forwarder health log, selects the latest block of      *)
(* PeriodicHealthReporter lines, reduces their colours to the worst one    *)
(* and prints one report.                                                  *)
(*                                                                         *)
(* Text is modelled as a sequence of tokens.  Inside a log line the tokens *)
(* are separated by one blank, except that the separator token             *)
(* 'PeriodicHealthReporter - ' carries its own trailing blank.  An "sp"    *)
(* token is one more whitespace character, so a line that begins with an   *)
(* "sp" token begins with whitespace and a line that ends with the         *)
(* separator token or with an "sp" token ends with whitespace.             *)
(***************************************************************************)
EXTENDS Integers, Sequences, FiniteSets, TLC

VARIABLES pc, process, lines, latest_block, timestamp, error,
          entries_with_raw, overall_color, status_code, status_text,
          stdout, exit_code

vars == <<pc, process, lines, latest_block, timestamp, error,
          entries_with_raw, overall_color, status_code, status_text,
          stdout, exit_code>>

\* Largest number of lines the tail command returns in the model.
MaxLines == 3

\* problems_summary_list[:2]
MaxIssues == 2

Min(S) == CHOOSE x \in S : \A y \in S : x <= y
Max(S) == CHOOSE x \in S : \A y \in S : x >= y

(***************************************************************************)
(* Tokens                                                                  *)
(***************************************************************************)
Tok(t, k, v) == [t |-> t, k |-> k, v |-> v]

SP == Tok("sp", "", " ")
NL == Tok("nl", "", "\n")
T1 == Tok("ts", "", "14-11-2025 10:00:00.000 +0100")
T2 == Tok("ts", "", "14-11-2025 10:01:00.000 +0100")
MK == Tok("mk", "", "PeriodicHealthReporter")
MKDASH == Tok("mk", "", "PeriodicHealthReporter -")
SEP == Tok("sep", "", "PeriodicHealthReporter - ")
KV(k, v) == Tok("kv", k, v)
W(v) == Tok("w", "", v)
LIT(v) == Tok("lit", "", v)
ESCN == Tok("esc", "", "\\n")
ITEM(color, name) == Tok("item", color, name)
None == Tok("none", "", "")

\* str.lower() and str.upper() on the colour values of the model
Lower(s) ==
  CASE s = "RED" -> "red"
    [] s = "Red" -> "red"
    [] s = "YELLOW" -> "yellow"
    [] s = "GREEN" -> "green"
    [] s = "BLUE" -> "blue"
    [] OTHER -> s

Upper(s) ==
  CASE s = "red" -> "RED"
    [] s = "Red" -> "RED"
    [] s = "yellow" -> "YELLOW"
    [] s = "green" -> "GREEN"
    [] s = "blue" -> "BLUE"
    [] OTHER -> s

(***************************************************************************)
(* The lines the tail command can return, and its failure texts            *)
(***************************************************************************)
LineSet ==
  { <<T2, SEP, KV("color", "green"), KV("feature", "A")>>,
    <<T2, SEP, KV("color", "red"), KV("feature", "B")>>,
    <<T2, SEP, KV("color", "YELLOW"), KV("feature", ""), KV("node_path", "C")>>,
    <<T2, SEP, KV("color", "blue")>>,
    <<T2, SEP, KV("feature", "D"), W("due_to_stanza")>>,
    <<T1, SEP, KV("color", "red"), KV("feature", "B")>>,
    <<T1, SEP, KV("color", "yellow"), KV("color", "green")>>,
    <<T2, MK, W("started")>>,
    <<W("INFO"), W("TailReader")>>,
    <<SP, T2, SEP, KV("color", "green")>>,
    <<T2, SEP>>,
    <<T2, SEP, KV("color", "red"), SP, SEP, KV("color", "yellow"), KV("feature", "C")>>,
    <<W("WARN"), SEP, KV("color", "red")>>,
    <<>> }

StderrSet ==
  { <<>>,
    <<W("tail: cannot open 'health.log' for reading: No such file or directory"), NL>>,
    <<W("tail: error reading 'health.log'"), NL, W("tail: Input/output error")>> }

TailedOutputs == UNION { [1..n -> LineSet] : n \in 0..MaxLines }

\* What subprocess.run(['tail', '-n', '200', path]) can do.
TailOutcomes ==
  { [kind |-> "ok", out |-> s, err |-> <<>>] : s \in TailedOutputs }
  \cup { [kind |-> "nonzero", out |-> <<>>, err |-> e] : e \in StderrSet }
  \cup { [kind |-> "oserror", out |-> <<>>,
          err |-> <<W("[Errno 13] Permission denied: 'tail'")>>],
         [kind |-> "notfound", out |-> <<>>,
          err |-> <<W("[Errno 2] No such file or directory: 'tail'")>>] }

(***************************************************************************)
(* get_latest_log_block                                                    *)
(***************************************************************************)
IsBlank(line) == \A i \in 1..Len(line) : line[i].t = "sp"

LStrip(s) ==
  LET idx == {i \in 1..Len(s) : s[i].t # "sp"}
  IN IF idx = {} THEN <<>> ELSE SubSeq(s, Min(idx), Len(s))

RStrip(s) ==
  LET idx == {i \in 1..Len(s) : s[i].t # "sp"}
  IN IF idx = {} THEN <<>> ELSE SubSeq(s, 1, Max(idx))

\* The end of the whole output: trailing whitespace goes, and with it the
\* trailing blank of a separator that ends the text.
RStripEnd(s) ==
  LET r == RStrip(s)
  IN IF r # <<>> /\ r[Len(r)] = SEP THEN [r EXCEPT ![Len(r)] = MKDASH] ELSE r

\* process.stdout.strip().split('\n'), the output being the given lines,
\* each ended by a newline
StripSplit(out) ==
  LET nb == {i \in 1..Len(out) : ~IsBlank(out[i])}
  IN IF nb = {} THEN << <<>> >>
     ELSE LET f == Min(nb)
              l == Max(nb)
          IN [j \in 1..(l - f + 1) |->
                LET a == IF j = 1 THEN LStrip(out[f + j - 1]) ELSE out[f + j - 1]
                IN IF f + j - 1 = l THEN RStripEnd(a) ELSE a]

\* 'PeriodicHealthReporter' in line
HasMarker(line) == \E i \in 1..Len(line) : line[i].t \in {"mk", "sep"}

FilterMarker(tailed_lines) == SelectSeq(tailed_lines, HasMarker)

\* re.match(r'^\d{2}-\d{2}-\d{4} ...', last_line)
TimestampMatch(line) ==
  IF Len(line) > 0 /\ line[1].t = "ts" THEN line[1] ELSE None

\* line.startswith(latest_timestamp_prefix)
StartsWith(line, prefix) == Len(line) > 0 /\ line[1] = prefix

RECURSIVE ScanBack(_, _, _, _)
ScanBack(ls, prefix, i, block) ==
  IF i = 0 THEN block
  ELSE IF StartsWith(ls[i], prefix)
       THEN ScanBack(ls, prefix, i - 1, <<ls[i]>> \o block)
       ELSE block

\* Variant: every line with the prefix, the scan not stopping at the first
\* line without it.
LatestBlockNoBreak(ls, prefix) ==
  LET Shares(line) == StartsWith(line, prefix)
  IN SelectSeq(ls, Shares)

LatestBlock(ls, prefix) == ScanBack(ls, prefix, Len(ls), <<>>)

\* Variant: the message without the text the utility wrote.
TailErrorMessageBare(stderr) == <<LIT("Error running 'tail' command: ")>>

TailErrorMessage(stderr) == <<LIT("Error running 'tail' command: ")>> \o stderr
ReadErrorMessage(e) == <<LIT("Error reading log file: ")>> \o e
NotFoundMessage == <<LIT("Error: 'tail' command not found. Is this a standard Linux system?")>>
NoEntriesMessage == <<LIT("No 'PeriodicHealthReporter' entries found in the last 200 lines of the log.")>>
NoTimestampMessage == <<LIT("Could not determine timestamp from the last log entry.")>>

\* except IOError: IOError is OSError, and FileNotFoundError is one of its
\* subclasses, so the first except clause takes both
IsIOError(kind) == kind \in {"oserror", "notfound"}

Init ==
  /\ pc = "start"
  /\ process \in TailOutcomes
  /\ lines = <<>>
  /\ latest_block = <<>>
  /\ timestamp = None
  /\ error = <<>>
  /\ entries_with_raw = <<>>
  /\ overall_color = ""
  /\ status_code = -1
  /\ status_text = ""
  /\ stdout = <<>>
  /\ exit_code = -1

\* The try block of get_latest_log_block and its except clauses.
RunTail ==
  /\ pc = "start"
  /\ IF IsIOError(process.kind)
     THEN /\ error' = ReadErrorMessage(process.err)
          /\ lines' = lines
          /\ pc' = "block_returned"
     ELSE IF process.kind = "notfound"
     THEN /\ error' = NotFoundMessage
          /\ lines' = lines
          /\ pc' = "block_returned"
     ELSE IF process.kind = "nonzero"
     THEN /\ error' = TailErrorMessage(process.err)
          /\ lines' = lines
          /\ pc' = "block_returned"
     ELSE /\ lines' = FilterMarker(StripSplit(process.out))
          /\ error' = error
          /\ pc' = "filtered"
  /\ UNCHANGED <<process, latest_block, timestamp, entries_with_raw,
                 overall_color, status_code, status_text, stdout, exit_code>>

\* The rest of get_latest_log_block.
SelectBlock ==
  /\ pc = "filtered"
  /\ pc' = "block_returned"
  /\ IF lines = <<>>
     THEN /\ error' = NoEntriesMessage
          /\ UNCHANGED <<latest_block, timestamp>>
     ELSE IF TimestampMatch(lines[Len(lines)]) = None
     THEN /\ error' = NoTimestampMessage
          /\ UNCHANGED <<latest_block, timestamp>>
     ELSE /\ timestamp' = TimestampMatch(lines[Len(lines)])
          /\ latest_block' = LatestBlock(lines, timestamp')
          /\ error' = error
  /\ UNCHANGED <<process, lines, entries_with_raw, overall_color,
                 status_code, status_text, stdout, exit_code>>

(***************************************************************************)
(* main                                                                    *)
(***************************************************************************)
\* print(f"{status_code} \"Splunk Health\" - {body}")
WriteLine(code, body) == [status |-> code, service |-> "Splunk Health", body |-> body]

UnknownReport(cause) == WriteLine(3, <<LIT("UNKNOWN: ")>> \o cause)
NoBlockMessage == <<LIT("Could not find a valid health report block in the log.")>>
NoAttributesMessage == <<LIT("No attributes parsed from the latest report.")>>

\* line.split('PeriodicHealthReporter - ')
RECURSIVE SplitOn(_)
SplitOn(s) ==
  LET seps == {i \in 1..Len(s) : s[i] = SEP}
  IN IF seps = {} THEN <<s>>
     ELSE <<SubSeq(s, 1, Min(seps) - 1)>> \o SplitOn(SubSeq(s, Min(seps) + 1, Len(s)))

\* parts[1].strip()
RawAttributeString(parts) == RStrip(LStrip(parts[2]))

\* parse_attributes: every key=value match, a later match of a key
\* replacing an earlier one
ParseAttributes(s) ==
  LET kvs == {i \in 1..Len(s) : s[i].t = "kv"}
  IN [k \in {s[i].k : i \in kvs} |-> s[Max({i \in kvs : s[i].k = k})].v]

\* dict.get(key, default)
Get(d, k, default) == IF k \in DOMAIN d THEN d[k] ELSE default

\* Variant: a line without the separator is kept, with an empty attribute
\* string, instead of being skipped.
EntriesOfNoSkip(block) ==
  [i \in 1..Len(block) |->
     LET parts == SplitOn(block[i]) \o << <<>> >>
     IN [attrs |-> ParseAttributes(RawAttributeString(parts)),
         raw |-> RawAttributeString(parts)]]

RECURSIVE EntriesOf(_)
EntriesOf(block) ==
  IF block = <<>> THEN <<>>
  ELSE LET parts == SplitOn(Head(block))
       IN (IF Len(parts) > 1
           THEN <<[attrs |-> ParseAttributes(RawAttributeString(parts)),
                   raw |-> RawAttributeString(parts)]>>
           ELSE <<>>) \o EntriesOf(Tail(block))

color_precedence == [red |-> 2, yellow |-> 1, green |-> 0]

status_map == [green |-> <<0, "OK">>, yellow |-> <<1, "WARN">>, red |-> <<2, "CRIT">>]

RECURSIVE WorstFrom(_, _, _)
WorstFrom(entries, i, worst) ==
  IF i > Len(entries) THEN worst
  ELSE LET color_str == Lower(Get(entries[i].attrs, "color", "green"))
       IN IF color_str \in DOMAIN color_precedence
             /\ color_precedence[color_str] > worst.level
          THEN WorstFrom(entries, i + 1,
                         [level |-> color_precedence[color_str], str |-> color_str])
          ELSE WorstFrom(entries, i + 1, worst)

\* Variant: the level comparison lost, the last recognised colour wins.
RECURSIVE LastFrom(_, _, _)
LastFrom(entries, i, worst) ==
  IF i > Len(entries) THEN worst
  ELSE LET color_str == Lower(Get(entries[i].attrs, "color", "green"))
       IN IF color_str \in DOMAIN color_precedence
          THEN LastFrom(entries, i + 1,
                        [level |-> color_precedence[color_str], str |-> color_str])
          ELSE LastFrom(entries, i + 1, worst)

WorstColorLastSeen(entries) == LastFrom(entries, 1, [level |-> 0, str |-> "green"]).str

WorstColor(entries) == WorstFrom(entries, 1, [level |-> 0, str |-> "green"]).str

\* status_map.get(overall_color, (3, 'UNKNOWN'))
StatusOf(color) ==
  IF color \in DOMAIN status_map THEN status_map[color] ELSE <<3, "UNKNOWN">>

OutputSummary(text, color, ts) ==
  <<LIT(text), LIT(": Overall status is "), LIT(Upper(color)),
    LIT(" (Log Time: "), ts, LIT(")")>>

\* Variant: only the colours of the precedence table make a problem.
IsProblemRanked(entry) ==
  Lower(Get(entry.attrs, "color", "green")) \in {"yellow", "red"}

IsProblem(entry) == Lower(Get(entry.attrs, "color", "green")) # "green"

\* Variant: problems collected for CRIT only.
ProblemEntriesCritOnly(code, entries) ==
  IF code > 1 THEN SelectSeq(entries, IsProblem) ELSE <<>>

ProblemEntries(code, entries) ==
  IF code > 0 THEN SelectSeq(entries, IsProblem) ELSE <<>>

\* entry_dict.get('feature') or entry_dict.get('node_path') or 'Component'
DisplayName(entry) ==
  IF Get(entry.attrs, "feature", "") # "" THEN entry.attrs["feature"]
  ELSE IF Get(entry.attrs, "node_path", "") # "" THEN entry.attrs["node_path"]
  ELSE "Component"

ProblemItem(entry) ==
  ITEM(Upper(Get(entry.attrs, "color", "N/A")), DisplayName(entry))

\* glue.join(parts), each part a token sequence
RECURSIVE Join(_, _)
Join(glue, parts) ==
  IF parts = <<>> THEN <<>>
  ELSE IF Len(parts) = 1 THEN parts[1]
  ELSE parts[1] \o <<glue>> \o Join(glue, Tail(parts))

\* Variant: the list not cut to its first two items.
ProblemsSummaryAll(problems) ==
  Join(LIT(", "), [i \in 1..Len(problems) |-> <<ProblemItem(problems[i])>>])

\* ", ".join(problems_summary_list[:2])
ProblemsSummary(problems) ==
  Join(LIT(", "),
       [i \in 1..(IF Len(problems) < MaxIssues THEN Len(problems) ELSE MaxIssues)
          |-> <<ProblemItem(problems[i])>>])

FinalOutput(summary, problems) ==
  IF problems # <<>>
  THEN summary \o <<LIT(" (Issues: ")>> \o ProblemsSummary(problems) \o <<LIT("...)")>>
       \o <<ESCN>> \o Join(ESCN, [i \in 1..Len(problems) |-> problems[i].raw])
  ELSE summary

\* main, after get_latest_log_block has returned: the two early returns.
CheckBlock ==
  /\ pc = "block_returned"
  /\ IF error # <<>>
     THEN /\ stdout' = Append(stdout, UnknownReport(error))
          /\ exit_code' = 0
          /\ pc' = "done"
     ELSE IF latest_block = <<>>
     THEN /\ stdout' = Append(stdout, UnknownReport(NoBlockMessage))
          /\ exit_code' = 0
          /\ pc' = "done"
     ELSE /\ UNCHANGED <<stdout, exit_code>>
          /\ pc' = "parse"
  /\ UNCHANGED <<process, lines, latest_block, timestamp, error,
                 entries_with_raw, overall_color, status_code, status_text>>

\* The loop that builds entries_with_raw, and the early return after it.
ParseEntries ==
  /\ pc = "parse"
  /\ entries_with_raw' = EntriesOf(latest_block)
  /\ IF entries_with_raw' = <<>>
     THEN /\ stdout' = Append(stdout, UnknownReport(NoAttributesMessage))
          /\ exit_code' = 0
          /\ pc' = "done"
     ELSE /\ UNCHANGED <<stdout, exit_code>>
          /\ pc' = "reduce"
  /\ UNCHANGED <<process, lines, latest_block, timestamp, error,
                 overall_color, status_code, status_text>>

\* The severity reducer and the status lookup.
ReduceSeverity ==
  /\ pc = "reduce"
  /\ overall_color' = WorstColor(entries_with_raw)
  /\ status_code' = StatusOf(overall_color')[1]
  /\ status_text' = StatusOf(overall_color')[2]
  /\ pc' = "report"
  /\ UNCHANGED <<process, lines, latest_block, timestamp, error,
                 entries_with_raw, stdout, exit_code>>

\* The reporter and the final print.
Report ==
  /\ pc = "report"
  /\ stdout' = Append(stdout,
        WriteLine(status_code,
              FinalOutput(OutputSummary(status_text, overall_color, timestamp),
                          ProblemEntries(status_code, entries_with_raw))))
  /\ exit_code' = 0
  /\ pc' = "done"
  /\ UNCHANGED <<process, lines, latest_block, timestamp, error,
                 entries_with_raw, overall_color, status_code, status_text>>

Next ==
  \/ RunTail
  \/ SelectBlock
  \/ CheckBlock
  \/ ParseEntries
  \/ ReduceSeverity
  \/ Report

Spec == Init /\ [][Next]_vars

(***************************************************************************)
(* Properties                                                              *)
(***************************************************************************)
\* The colour an entry counts with: its color attribute, lower-cased, green
\* when it has none.
ColorOf(entry) ==
  IF "color" \in DOMAIN entry.attrs THEN Lower(entry.attrs["color"]) ELSE "green"

ColorsOf(entries) == {ColorOf(entries[i]) : i \in 1..Len(entries)}

\* The reducer has run.
Reduced == pc \in {"report", "done"} /\ entries_with_raw # <<>>

\* C1: for every non-empty sequence of entries the overall colour is red
\* (code 2, CRIT) if some entry is red, otherwise yellow (code 1, WARN) if
\* some entry is yellow, otherwise green (code 0, OK), whatever the order of
\* the entries; the printed status code is that code.
C1_WorstIsMaximum ==
  Reduced =>
    LET cols == ColorsOf(entries_with_raw)
        want == IF "red" \in cols THEN <<"red", 2, "CRIT">>
                ELSE IF "yellow" \in cols THEN <<"yellow", 1, "WARN">>
                ELSE <<"green", 0, "OK">>
    IN /\ <<overall_color, status_code, status_text>> = want
       /\ pc = "done" => stdout[1].status = want[2]

\* A red entry followed by a yellow one, reported as red.
C1_Witness ==
  /\ pc = "done"
  /\ \E i, j \in 1..Len(entries_with_raw) :
        /\ i < j
        /\ ColorOf(entries_with_raw[i]) = "red"
        /\ ColorOf(entries_with_raw[j]) = "yellow"
  /\ stdout[1].status = 2

\* get_latest_log_block has returned without an error.
BlockSelected == pc \notin {"start", "filtered"} /\ error = <<>>

\* C2: a block returned without error is the maximal trailing run of the
\* marker-filtered lines that start with the timestamp prefix of the last
\* filtered line: non-empty, a suffix in file order containing the last
\* line, every line with that prefix, and the filtered line before it, if
\* any, without it.
C2_BlockIsMaximalTrailingRun ==
  BlockSelected =>
    LET n == Len(lines)
        b == Len(latest_block)
    IN /\ lines = FilterMarker(StripSplit(process.out))
       /\ n >= 1 /\ b >= 1 /\ b <= n
       /\ timestamp.t = "ts" /\ lines[n][1] = timestamp
       /\ latest_block = SubSeq(lines, n - b + 1, n)
       /\ \A i \in 1..b : Len(latest_block[i]) > 0 /\ latest_block[i][1] = timestamp
       /\ n > b => (lines[n - b] = <<>> \/ lines[n - b][1] # timestamp)

\* An earlier line shares the prefix but a line with another prefix
\* separates it from the run.
C2_Witness ==
  /\ pc = "done"
  /\ error = <<>>
  /\ Len(lines) = 3
  /\ Len(latest_block) = 1
  /\ lines[1][1] = timestamp
  /\ lines[2][1] # timestamp

\* The four failure kinds, read off the outcome of the tail invocation.
TailFailed == process.kind # "ok"

NoMarkerLine ==
  /\ process.kind = "ok"
  /\ \A i \in 1..Len(StripSplit(process.out)) : ~HasMarker(StripSplit(process.out)[i])

LastMarkerLine ==
  LET ls == StripSplit(process.out)
  IN ls[Max({i \in 1..Len(ls) : HasMarker(ls[i])})]

NoLeadingTimestamp ==
  /\ process.kind = "ok"
  /\ ~NoMarkerLine
  /\ (LastMarkerLine = <<>> \/ LastMarkerLine[1].t # "ts")

NoSeparatorInBlock ==
  /\ process.kind = "ok"
  /\ ~NoMarkerLine
  /\ ~NoLeadingTimestamp
  /\ pc \notin {"start", "filtered"}
  /\ \A i \in 1..Len(latest_block) : \A j \in 1..Len(latest_block[i]) :
        latest_block[i][j] # SEP

FailureCause ==
  CASE process.kind \in {"oserror", "notfound"} ->
         <<LIT("Error reading log file: ")>> \o process.err
    [] process.kind = "nonzero" ->
         <<LIT("Error running 'tail' command: ")>> \o process.err
    [] NoMarkerLine -> NoEntriesMessage
    [] NoLeadingTimestamp -> NoTimestampMessage
    [] OTHER -> NoAttributesMessage

\* Tokens that only a health summary holds.
SummaryTokens ==
  {LIT(": Overall status is "), LIT(" (Log Time: "), LIT(" (Issues: "),
   LIT("...)"), ESCN}

\* C3: each of the four failure kinds short-circuits the run: no later
\* stage is entered, the only output is one report with status code 3 that
\* carries the cause, and nothing of a health summary is in it.
C3_FailuresShortCircuit ==
  /\ (TailFailed \/ NoMarkerLine \/ NoLeadingTimestamp) =>
        /\ pc \notin {"parse", "reduce", "report"}
        /\ latest_block = <<>> /\ entries_with_raw = <<>>
  /\ (TailFailed \/ NoMarkerLine \/ NoLeadingTimestamp \/ NoSeparatorInBlock) =>
        /\ pc \notin {"reduce", "report"}
        /\ overall_color = "" /\ status_code = -1 /\ status_text = ""
        /\ Len(stdout) <= 1
        /\ pc = "done" =>
              /\ stdout = <<[status |-> 3, service |-> "Splunk Health",
                             body |-> <<LIT("UNKNOWN: ")>> \o FailureCause]>>
              /\ \A i \in 1..Len(stdout[1].body) :
                    stdout[1].body[i] \notin SummaryTokens

\* A block was selected and none of its lines has the separator.
C3_Witness ==
  /\ pc = "done"
  /\ NoSeparatorInBlock
  /\ Len(latest_block) >= 2
  /\ stdout[1].status = 3

\* C4 as stated: on a non-zero exit of tail the body after "- " begins
\* directly with "Error running 'tail' command: ".
C4_BodyBeginsWithError ==
  (pc = "done" /\ process.kind = "nonzero") =>
    /\ stdout = <<[status |-> 3, service |-> "Splunk Health",
                   body |-> <<LIT("Error running 'tail' command: ")>> \o process.err]>>
    /\ exit_code = 0

\* C4, amended: on a non-zero exit of tail the text printed is exactly
\* 3 "Splunk Health" - UNKNOWN: Error running 'tail' command: <stderr>,
\* and the exit code is 0.
C4_UnknownThenError ==
  (pc = "done" /\ process.kind = "nonzero") =>
    /\ stdout = <<[status |-> 3, service |-> "Splunk Health",
                   body |-> <<LIT("UNKNOWN: "), LIT("Error running 'tail' command: ")>>
                            \o process.err]>>
    /\ exit_code = 0

C4_Witness ==
  /\ pc = "done"
  /\ process.kind = "nonzero"
  /\ process.err # <<>>
  /\ stdout[1].status = 3
  /\ exit_code = 0

\* C5: one run writes exactly one physical line, of the form
\* <status_code> "Splunk Health" - <body> with the code in 0..3: one print,
\* and no real line break inside the printed text.
C5_OnePhysicalLine ==
  /\ Len(stdout) <= 1
  /\ pc = "done" =>
        /\ Len(stdout) = 1
        /\ stdout[1].status \in 0..3
        /\ stdout[1].service = "Splunk Health"
        /\ \A i \in 1..Len(stdout[1].body) : stdout[1].body[i] # NL

\* The entries that count as problems, by their position in the block.
ProblemIdx ==
  {i \in 1..Len(entries_with_raw) : ColorOf(entries_with_raw[i]) # "green"}

\* The k-th smallest member of a set of numbers.
Nth(S, k) == CHOOSE x \in S : Cardinality({y \in S : y <= x}) = k

EscPositions(body) == {p \in 1..Len(body) : body[p] = ESCN}

\* The [COLOR] name item of a problem entry.
ItemOf(entry) == ITEM(Upper(entry.attrs["color"]), DisplayName(entry))

\* The text that follows the k-th literal backslash-n of the body, up to the
\* next one or to the end.
DetailPart(body, k) ==
  LET escs == EscPositions(body)
  IN SubSeq(body, Nth(escs, k) + 1,
            IF k < Cardinality(escs) THEN Nth(escs, k + 1) - 1 ELSE Len(body))

\* C6: in a WARN or CRIT report the Issues section follows the summary,
\* lists the [COLOR] name items of the first two problem entries at most,
\* comma-joined and closed by "...", and the detail after it is the raw
\* attribute string of every problem entry, in file order, each preceded by
\* a literal backslash-n.
C6_IssuesAndDetail ==
  (pc = "done" /\ status_code \in {1, 2}) =>
    LET body == stdout[1].body
        P == Cardinality(ProblemIdx)
        shown == IF P < 2 THEN P ELSE 2
        Problem(k) == entries_with_raw[Nth(ProblemIdx, k)]
    IN /\ P >= 1
       /\ Len(body) >= 8 + 2 * shown
       /\ SubSeq(body, 1, 6) =
            <<LIT(status_text), LIT(": Overall status is "), LIT(Upper(overall_color)),
              LIT(" (Log Time: "), timestamp, LIT(")")>>
       /\ body[7] = LIT(" (Issues: ")
       /\ Cardinality({p \in 1..Len(body) : body[p].t = "item"}) = shown
       /\ \A k \in 1..shown :
             /\ body[6 + 2 * k] = ItemOf(Problem(k))
             /\ k < shown => body[7 + 2 * k] = LIT(", ")
       /\ body[7 + 2 * shown] = LIT("...)")
       /\ body[8 + 2 * shown] = ESCN
       /\ Cardinality(EscPositions(body)) = P
       /\ \A k \in 1..P : DetailPart(body, k) = Problem(k).raw

\* Three problems: two are listed, all three are in the detail.
C6_Witness ==
  /\ pc = "done"
  /\ status_code \in {1, 2}
  /\ Cardinality(ProblemIdx) = 3
  /\ Cardinality(EscPositions(stdout[1].body)) = 3

HasIssues(body) == \E p \in 1..Len(body) : body[p] = LIT(" (Issues: ")
HasDetail(body) == \E p \in 1..Len(body) : body[p] = ESCN

\* C7: the Issues section and the detail are in the report exactly when
\* its status code is 1 or 2; a block whose entries are all green or
\* without colour gives code 0 and the summary alone; a WARN or CRIT report
\* always has a problem entry.
C7_IssuesIffWarnOrCrit ==
  pc = "done" =>
    LET report == stdout[1]
    IN /\ HasIssues(report.body) <=> report.status \in {1, 2}
       /\ HasDetail(report.body) <=> report.status \in {1, 2}
       /\ report.status \in {1, 2} => ProblemIdx # {}
       /\ (entries_with_raw # <<>> /\ ColorsOf(entries_with_raw) = {"green"}) =>
             /\ report.status = 0
             /\ report.body =
                  <<LIT("OK"), LIT(": Overall status is "), LIT("GREEN"),
                    LIT(" (Log Time: "), timestamp, LIT(")")>>

\* A WARN report with its Issues section and detail.
C7_Witness ==
  /\ pc = "done"
  /\ stdout[1].status = 1
  /\ HasIssues(stdout[1].body)
  /\ HasDetail(stdout[1].body)

IsRecognised(entry) == ColorOf(entry) \in {"green", "yellow", "red"}

UnknownIdx ==
  {i \in 1..Len(entries_with_raw) : ~IsRecognised(entries_with_raw[i])}

InDetail(body, raw) == \E k \in 1..Cardinality(EscPositions(body)) : DetailPart(body, k) = raw

InIssues(body, item) == \E p \in 1..Len(body) : body[p] = item

\* An unrecognised colour neither raises nor lowers the result: the report
\* has the colour and code of the block without those entries.
UnknownIgnoredInRanking ==
  LET known == SelectSeq(entries_with_raw, IsRecognised)
      cols == ColorsOf(known)
      want == IF "red" \in cols THEN <<"red", 2>>
              ELSE IF "yellow" \in cols THEN <<"yellow", 1>>
              ELSE <<"green", 0>>
  IN /\ <<overall_color, stdout[1].status>> = want
     /\ want[2] = 0 => ~HasIssues(stdout[1].body) /\ ~HasDetail(stdout[1].body)

\* C8 as stated: an entry with an unrecognised colour never changes the
\* overall colour or code, and in every WARN or CRIT report it is listed in
\* the Issues section and in the detail.
C8_UnknownAlwaysListed ==
  (pc = "done" /\ entries_with_raw # <<>>) =>
    /\ UnknownIgnoredInRanking
    /\ stdout[1].status \in {1, 2} =>
          \A i \in UnknownIdx :
             /\ InIssues(stdout[1].body, ItemOf(entries_with_raw[i]))
             /\ InDetail(stdout[1].body, entries_with_raw[i].raw)

\* C8, amended: an entry with an unrecognised colour never changes the
\* overall colour or code; in every WARN or CRIT report it is in the detail,
\* and it is in the Issues section when it is one of the first two problem
\* entries; a block whose only non-green entries are unrecognised reports
\* code 0 without Issues section.
C8_UnknownListedWhenShown ==
  (pc = "done" /\ entries_with_raw # <<>>) =>
    /\ UnknownIgnoredInRanking
    /\ stdout[1].status \in {1, 2} =>
          \A i \in UnknownIdx :
             /\ Cardinality({j \in ProblemIdx : j <= i}) <= 2 =>
                   InIssues(stdout[1].body, ItemOf(entries_with_raw[i]))
             /\ InDetail(stdout[1].body, entries_with_raw[i].raw)

\* A CRIT or WARN report that lists an entry of unrecognised colour.
C8_Witness ==
  /\ pc = "done"
  /\ stdout[1].status \in {1, 2}
  /\ \E i \in UnknownIdx :
        /\ InIssues(stdout[1].body, ItemOf(entries_with_raw[i]))
        /\ InDetail(stdout[1].body, entries_with_raw[i].raw)

\* What one run prints when tail succeeds with the given lines.
RunOutput(out) ==
  LET ls == FilterMarker(StripSplit(out))
  IN IF ls = <<>> THEN UnknownReport(NoEntriesMessage)
     ELSE IF TimestampMatch(ls[Len(ls)]) = None THEN UnknownReport(NoTimestampMessage)
     ELSE LET ts == TimestampMatch(ls[Len(ls)])
              entries == EntriesOf(LatestBlock(ls, ts))
              color == WorstColor(entries)
          IN IF entries = <<>> THEN UnknownReport(NoAttributesMessage)
             ELSE WriteLine(StatusOf(color)[1],
                            FinalOutput(OutputSummary(StatusOf(color)[2], color, ts),
                                        ProblemEntries(StatusOf(color)[1], entries)))

\* The positions, among the tailed lines, of the lines selected as the block.
SelectedIdx(out) ==
  LET nb == {i \in 1..Len(out) : ~IsBlank(out[i])}
      stripped == StripSplit(out)
      ls == FilterMarker(stripped)
      marked == IF nb = {} THEN {}
                ELSE {Min(nb) + j - 1 : j \in {k \in 1..Len(stripped) : HasMarker(stripped[k])}}
      b == IF ls = <<>> \/ TimestampMatch(ls[Len(ls)]) = None THEN 0
           ELSE Len(LatestBlock(ls, TimestampMatch(ls[Len(ls)])))
  IN {i \in marked : Cardinality({k \in marked : k >= i}) <= b}

InsertAt(out, p, line) == SubSeq(out, 1, p - 1) \o <<line>> \o SubSeq(out, p, Len(out))

\* C9: a run whose tailed input has one more line outside the selected
\* block, the same tailed lines being selected, prints the identical report.
C9_OutsideLinesIgnored ==
  (pc = "done" /\ process.kind = "ok" /\ SelectedIdx(process.out) # {}) =>
    \A line \in LineSet : \A p \in 1..(Len(process.out) + 1) :
       LET other == InsertAt(process.out, p, line)
       IN SelectedIdx(other) = {IF i >= p THEN i + 1 ELSE i : i \in SelectedIdx(process.out)}
          => RunOutput(other) = stdout[1]

\* The two computations of a run's output agree.
RunOutputAgrees ==
  (pc = "done" /\ process.kind = "ok") => RunOutput(process.out) = stdout[1]

\* Everything after the first separator of a line, trimmed.
AfterFirstSeparator(line) ==
  LET first == Min({j \in 1..Len(line) : line[j] = SEP})
  IN RStrip(LStrip(SubSeq(line, first + 1, Len(line))))

HasSeparator(line) == \E j \in 1..Len(line) : line[j] = SEP

\* C10: the entries are the block lines that contain the separator, in
\* order, and the raw attribute string of each is everything after the
\* first occurrence of the separator, trimmed, text after a second occurrence
\* included; a block line without the separator gives no entry and no failure.
C10_EverythingAfterFirstSeparator ==
  (pc \in {"reduce", "report", "done"} /\ error = <<>>) =>
    LET with == SelectSeq(latest_block, HasSeparator)
    IN /\ Len(entries_with_raw) = Len(with)
       /\ \A k \in 1..Len(with) : entries_with_raw[k].raw = AfterFirstSeparator(with[k])
====
